---- MODULE Spec2Model ----
(***************************************************************************)
(* State-machine model of the Bybit DCA bot (src/bybit_bot.py) and of the   *)
(* Binance DCA bot (src/binance_dca.py, specification SpecDailyDca).       *)
(*                                                                         *)
(* One run of run_dca_bot is a sequential program; every call it makes to  *)
(* the exchange is one step whose outcome (a raised error, an empty reply, *)
(* a value) is chosen by the exchange.  Money amounts are fixed-point      *)
(* integers in units of 1e-7 of a coin, one decimal digit finer than the   *)
(* six decimals the program rounds to, so that round(x, 6) is a real       *)
(* rounding.  Allocation fractions are integers in units of 1e-4.          *)
(***************************************************************************)
EXTENDS Integers, Sequences, FiniteSets, TLC

(***************************************************************************)
(* Units                                                                   *)
(***************************************************************************)
\* 1e-6 of a coin, the precision of round(x, 6), in model units
Micro == 10
\* one whole coin in model units
USD == Micro * 1000000
\* float(multiplier_str): fractions are kept in units of 1/FracScale
FracScale == 10000
\* the value of float() on text that is not a number (it raises ValueError)
NotANumber == 0 - 1
\* a missing or empty field of an exchange reply (None / "")
None == 0 - 1

(***************************************************************************)
(* Program constants and configuration                                     *)
(***************************************************************************)
\* BUFFER_MULTIPLIER = 1.015, as the ratio BUFFER_NUM / BUFFER_DEN
BUFFER_NUM == 1015
BUFFER_DEN == 1000
MIN_REDEMPTION_USD == 10 * USD
\* the dust threshold 0.01 of convert_coins
MIN_CONVERT == USD \div 100
\* staking thresholds of the post-purchase step: SOL >= 0.1, ETH >= 0.01
SOL_STAKE_MIN == USD \div 10
ETH_MANUAL_MIN == USD \div 100
\* DAILY_USD, read from the environment
DAILY_USD == 100 * USD
\* STABLECOIN_LIST, read from the environment; its first entry is USD_TYPE
STABLECOIN_LIST == <<"USDT", "USDC", "DAI">>
USD_TYPE == STABLECOIN_LIST[1]

(***************************************************************************)
(* Arithmetic helpers                                                      *)
(***************************************************************************)
Max(a, b) == IF a >= b THEN a ELSE b
Min(a, b) == IF a <= b THEN a ELSE b

\* round(x, 6): to the nearest multiple of Micro, ties to the even multiple
Round6(x) ==
    LET q == x \div Micro
        r == x % Micro
    IN  IF 2 * r < Micro THEN q * Micro
        ELSE IF 2 * r > Micro THEN (q + 1) * Micro
        ELSE IF q % 2 = 0 THEN q * Micro ELSE (q + 1) * Micro

\* amount_to_cover * BUFFER_MULTIPLIER, rounded to the nearest model unit
\* (the float product is rounded to the nearest representable value)
WithBuffer(d) ==
    (d \div BUFFER_DEN) * BUFFER_NUM
        + ((d % BUFFER_DEN) * BUFFER_NUM + (BUFFER_DEN \div 2)) \div BUFFER_DEN

\* a faulty clamp: the cap by the redeemable amount applied before the floor
AmountToRedeem_FloorLast(deficit, redeemable) ==
    Max(Min(WithBuffer(deficit), redeemable), MIN_REDEMPTION_USD)

\* min(max(amount_to_cover * BUFFER_MULTIPLIER, MIN_REDEMPTION_USD), redeemable)
AmountToRedeem(deficit, redeemable) ==
    Min(Max(WithBuffer(deficit), MIN_REDEMPTION_USD), redeemable)

\* multiplier * DAILY_USD
TimesDaily(frac) == frac * (DAILY_USD \div FracScale)

(***************************************************************************)
(* The allocation string and get_crypto_allocation                         *)
(***************************************************************************)
\* Bound: the number of comma-separated pairs of the allocation string
MaxPairs == 2

\* One comma-separated piece of CRYPTO_ALLOCATION_STRING: the number of ':'
\* in it, the text before the first ':' and the value float() gives for
\* the text after it (NotANumber when float() raises).
Pairs ==
    { [colons |-> 1, sym |-> "ETH", val |-> 6000],      \* "ETH:0.6"
      [colons |-> 1, sym |-> "sol", val |-> 4000],      \* "sol:0.4"
      [colons |-> 1, sym |-> "SOL", val |-> 10000],     \* "SOL:1.0"
      [colons |-> 1, sym |-> "BTC", val |-> 0],         \* "BTC:0"
      [colons |-> 0, sym |-> "SOL0.4", val |-> NotANumber],   \* "SOL0.4"
      [colons |-> 1, sym |-> "SOL", val |-> NotANumber],      \* "SOL:abc"
      [colons |-> 2, sym |-> "SOL", val |-> 4000] }     \* "SOL:0.4:x"

AllocStrings == UNION { [1..n -> Pairs] : n \in 0..MaxPairs }

\* the allocation strings that name every asset once, each piece a
\* well-formed SYMBOL:fraction
ThreeAssetStrings ==
    { str \in [1..Cardinality({"ETH", "SOL", "BTC"}) -> Pairs] :
        /\ \A i \in DOMAIN str : str[i].colons = 1 /\ str[i].val >= 0
        /\ \A i, j \in DOMAIN str :
              (i # j) => (str[i].sym # str[j].sym
                            /\ <<str[i].sym, str[j].sym>> # <<"sol", "SOL">>
                            /\ <<str[i].sym, str[j].sym>> # <<"SOL", "sol">>) }

\* allocation strings of two pieces with fractions that float() accepts
\* though they are below 0 or above 1
SignedPairs ==
    { [colons |-> 1, sym |-> "ETH", val |-> 0 - 5000],     \* "ETH:-0.5"
      [colons |-> 1, sym |-> "SOL", val |-> 15000],        \* "SOL:1.5"
      [colons |-> 1, sym |-> "ETH", val |-> 6000],         \* "ETH:0.6"
      [colons |-> 1, sym |-> "sol", val |-> 4000] }        \* "sol:0.4"

SignedStrings ==
    { str \in [{1, 2} -> SignedPairs] :
        (str[1].sym = "ETH") # (str[2].sym = "ETH") }

\* symbol.upper()
Upper(s) == CASE s = "eth" -> "ETH" [] s = "sol" -> "SOL" [] s = "btc" -> "BTC"
              [] OTHER -> s

\* crypto_allocation[key] = value on an insertion-ordered dict, kept as a
\* sequence of <<symbol, fraction>> with distinct symbols
DictPut(d, key, value) ==
    IF \E i \in 1..Len(d) : d[i][1] = key
    THEN [i \in 1..Len(d) |-> IF d[i][1] = key THEN <<key, value>> ELSE d[i]]
    ELSE Append(d, <<key, value>>)

\* whether the loop body of get_crypto_allocation raises on this pair
PairRaises(p) == p.colons >= 2 \/ (p.colons = 1 /\ p.val = NotANumber)

\* the for loop over pairs: stops at the first pair that raises, keeping
\* what was stored before it; a pair without ':' is passed over
RECURSIVE ParsePairs(_, _, _)
ParsePairs(str, i, d) ==
    IF i > Len(str) THEN [alloc |-> d, raised |-> FALSE]
    ELSE IF str[i].colons = 0 THEN ParsePairs(str, i + 1, d)
    ELSE IF PairRaises(str[i]) THEN [alloc |-> d, raised |-> TRUE]
    ELSE ParsePairs(str, i + 1, DictPut(d, Upper(str[i].sym), str[i].val))

RECURSIVE SumValues(_, _)
SumValues(d, i) == IF i > Len(d) THEN 0 ELSE d[i][2] + SumValues(d, i + 1)

Abs(x) == IF x < 0 THEN 0 - x ELSE x

\* a faulty tolerance test: only a sum above 1.0 is noticed
SumOffTolerance_OnlyAbove(d) ==
    SumValues(d, 1) - FracScale > FracScale \div 1000

\* abs(sum - 1.0) > 0.001
SumOffTolerance(d) == Abs(SumValues(d, 1) - FracScale) > FracScale \div 1000

\* get_crypto_allocation: the plan it returns and the messages it sends
GetCryptoAllocation(str) ==
    LET parsed == IF str = <<>> THEN [alloc |-> <<>>, raised |-> FALSE]
                  ELSE ParsePairs(str, 1, <<>>)
        warned == str # <<>> /\ ~parsed.raised /\ parsed.alloc # <<>>
                    /\ SumOffTolerance(parsed.alloc)
    IN  [alloc  |-> parsed.alloc,
         raised |-> parsed.raised,
         warned |-> warned,
         empty  |-> parsed.alloc = <<>>]

(***************************************************************************)
(* What the exchange may answer                                            *)
(***************************************************************************)
AssetSymbols == {"ETH", "SOL", "BTC"}
Coins == {STABLECOIN_LIST[i] : i \in 1..Len(STABLECOIN_LIST)} \cup AssetSymbols

\* walletBalance strings the exchange may report, in model units: 0.005
\* (below the dust threshold), 30, 95.0000004 (a seventh decimal digit), 100
WalletAmounts == {USD \div 200, 30 * USD, 95 * USD + 4, 100 * USD}

\* get_wallet_balance: it raises, or answers an empty list, or a balance
WalletReplies ==
    {[kind |-> "raise", raw |-> 0], [kind |-> "empty", raw |-> 0]}
        \cup {[kind |-> "value", raw |-> a] : a \in WalletAmounts}

\* get_staked_position: it raises, or answers an empty list, or a position
\* whose redeemableAmount may be missing (None)
StakedReplies ==
    {[kind |-> "raise", redeemableAmount |-> None, amount |-> 0],
     [kind |-> "empty", redeemableAmount |-> None, amount |-> 0],
     [kind |-> "value", redeemableAmount |-> 80 * USD, amount |-> 90 * USD],
     [kind |-> "value", redeemableAmount |-> None, amount |-> 5 * USD]}

\* get_earn_product_info and session.stake_or_redeem, in call order
EarnOutcomes ==
    {"lookup_raises", "no_product", "submit_raises", "no_response",
     "rejected", "ok"}

\* request_a_quote / confirm_a_quote for a requested amount: either call
\* raises, or the quote is confirmed with the amounts the exchange quoted
\* (the full amount, a partial fill, more than requested, or no output)
ConvertOutcomes(req) ==
    {[kind |-> "quote_raises", fromAmount |-> 0, toAmount |-> 0],
     [kind |-> "confirm_raises", fromAmount |-> req, toAmount |-> req \div 2],
     [kind |-> "ok", fromAmount |-> req, toAmount |-> req \div 2],
     [kind |-> "ok", fromAmount |-> req \div 2, toAmount |-> req \div 4],
     [kind |-> "ok", fromAmount |-> req + USD, toAmount |-> req \div 2],
     [kind |-> "ok", fromAmount |-> req, toAmount |-> 0]}

(***************************************************************************)
(* State                                                                   *)
(***************************************************************************)
VARIABLES
    pc,                   \* the statement run_dca_bot executes next
    allocString,          \* CRYPTO_ALLOCATION_STRING of the environment
    crypto_allocation,    \* the plan, in dict order
    usd_amount_needed,
    current_coin_balance,
    final_coin_balance,
    amount_to_cover,
    redeemable_amount,    \* redeemable_amount / secondary_redeemable
    amount_to_redeem,
    stable_idx,           \* position of the for loop in STABLECOIN_LIST
    conversion_amount,
    order,                \* the tuple convert_coins returned last
    alloc_idx,            \* position of the for loop in crypto_allocation
    coin_balance,
    trade_log,            \* the data rows of trade_log.csv
    log_file,             \* whether trade_log.csv exists, and the number
                          \*   of header lines at its top
    covered_by,           \* the balance read that first showed no deficit
                          \*   ("initial", "primary", "secondary"; "" if none)
    calls,                \* what the statement executed last did: the
    notes,                \*   exchange calls it made, the messages it sent
    logs,                 \*   with send_telegram, the lines it logged with
    caught,               \*   logger.error / logger.warning, the except
    submitted,            \*   blocks it entered, the stake/redeem requests
                          \*   it submitted; each in order
    since_read,           \* what changed the account since the primary
                          \*   balance was read last: redemptions submitted
                          \*   with success, conversions confirmed
    \* the Binance bot (src/binance_dca.py), one run of daily_dca
    dca_pc,               \* the statement daily_dca executes next
    usdc_balance,         \* balance of daily_dca: the USDC spot balance
                          \*   it read
    redemptions,          \* the amounts of the redeem_flexible_product
                          \*   calls of the run, in order
    buy_orders,           \* the new_order calls of the run, in order
    subscriptions,        \* the subscribe_flexible_product calls
    binance_log,          \* the data rows of trade_log_binance.csv
    binance_log_file,     \* whether that file exists, and its header lines
    dca_notes             \* the messages the statement executed last sent

vars == <<pc, allocString, crypto_allocation, usd_amount_needed,
          current_coin_balance, final_coin_balance, amount_to_cover,
          redeemable_amount, amount_to_redeem, stable_idx, conversion_amount,
          order, alloc_idx, coin_balance, trade_log, log_file, covered_by,
          calls,
          notes, logs, caught, submitted, since_read,
          dca_pc, usdc_balance, redemptions, buy_orders, subscriptions,
          binance_log, binance_log_file, dca_notes>>

\* the state of the Binance bot
binance_vars == <<dca_pc, usdc_balance, redemptions, buy_orders, subscriptions,
                  binance_log, binance_log_file, dca_notes>>

\* the state of the Bybit bot
bybit_vars == <<pc, allocString, crypto_allocation, usd_amount_needed,
                current_coin_balance, final_coin_balance, amount_to_cover,
                redeemable_amount, amount_to_redeem, stable_idx,
                conversion_amount, order, alloc_idx, coin_balance, trade_log,
                log_file, covered_by, calls, notes, logs, caught, submitted,
                since_read>>

Ops == {"get_wallet_balance", "get_staked_position", "get_earn_product_info",
        "redeem", "stake", "request_a_quote", "confirm_a_quote"}

NoteKinds == {"start", "balance_error", "convert_ok", "convert_error",
              "no_product", "earn_ok", "earn_error", "alloc_warning",
              "alloc_error", "no_alloc", "redeem_attempt", "insufficient",
              "skip_asset", "buying", "manual_action"}

LogKinds == {"balance_error", "convert_dust", "convert_error", "no_product",
             "earn_error", "alloc_warning", "alloc_error", "staked_error",
             "conversion_failed", "deficit_remains", "insufficient",
             "skip_asset"}

CatchPlaces == {"balance", "convert", "earn", "alloc", "staked"}

\* the zero-amount tuple (fromCoin, toCoin, "0.0", "0.0")
Sentinel(fromCoin, toCoin) ==
    [fromCoin |-> fromCoin, toCoin |-> toCoin, fromAmount |-> 0, toAmount |-> 0]

\* the state before binance_dca.daily_dca starts, for a set of contents of
\* its trade log (<<>>: the file does not exist yet)
DcaIdle(ledgers) ==
    /\ dca_pc = "start"
    /\ usdc_balance = 0
    /\ redemptions = <<>>
    /\ buy_orders = <<>>
    /\ subscriptions = <<>>
    /\ binance_log \in ledgers
    /\ binance_log_file = IF binance_log = <<>>
                          THEN [exists |-> FALSE, headers |-> 0]
                          ELSE [exists |-> TRUE, headers |-> 1]
    /\ dca_notes = <<>>

\* the locals of run_dca_bot before it starts
RunDcaBotIdle(strings) ==
    /\ pc = "start"
    /\ allocString \in strings
    /\ crypto_allocation = <<>>
    /\ usd_amount_needed = 0
    /\ current_coin_balance = 0
    /\ final_coin_balance = 0
    /\ amount_to_cover = 0
    /\ redeemable_amount = 0
    /\ amount_to_redeem = 0
    /\ stable_idx = 0
    /\ conversion_amount = 0
    /\ order = Sentinel("", "")
    /\ alloc_idx = 0
    /\ coin_balance = 0
    /\ trade_log = <<>>
    /\ log_file = [exists |-> FALSE, headers |-> 0]
    /\ covered_by = ""
    /\ since_read = {}
    /\ calls = <<>>
    /\ notes = <<>>
    /\ logs = <<>>
    /\ caught = <<>>
    /\ submitted = <<>>

\* the state before run_dca_bot starts, for a set of allocation strings
InitWith(strings) ==
    /\ DcaIdle({<<>>})
    /\ RunDcaBotIdle(strings)

Init == InitWith(AllocStrings)

(***************************************************************************)
(* The utility functions.  Each gives its result and its effects: the      *)
(* exchange calls made, the messages sent, the lines logged and the except *)
(* blocks entered, in order.                                               *)
(***************************************************************************)
\* a faulty get_coin_balance: a failed query is answered with -1, not 0
GetCoinBalance_MinusOne(reply, coin) ==
    LET call == <<"get_wallet_balance", coin>>
    IN  CASE reply.kind = "raise" ->
               [value |-> 0 - 1, calls |-> <<call>>,
                notes |-> <<"balance_error">>, logs |-> <<"balance_error">>,
                caught |-> <<"balance">>]
          [] reply.kind = "empty" ->
               [value |-> 0, calls |-> <<call>>, notes |-> <<>>,
                logs |-> <<>>, caught |-> <<>>]
          [] OTHER ->
               [value |-> Round6(reply.raw), calls |-> <<call>>,
                notes |-> <<>>, logs |-> <<>>, caught |-> <<>>]

\* get_coin_balance(session, coin)
GetCoinBalance(reply, coin) ==
    LET call == <<"get_wallet_balance", coin>>
    IN  CASE reply.kind = "raise" ->
               [value |-> 0, calls |-> <<call>>,
                notes |-> <<"balance_error">>, logs |-> <<"balance_error">>,
                caught |-> <<"balance">>]
          [] reply.kind = "empty" ->
               [value |-> 0, calls |-> <<call>>, notes |-> <<>>,
                logs |-> <<>>, caught |-> <<>>]
          [] OTHER ->
               [value |-> Round6(reply.raw), calls |-> <<call>>,
                notes |-> <<>>, logs |-> <<>>, caught |-> <<>>]

\* a faulty dust test: only amounts of zero or less are held back
TooSmall_OnlyZero(usd_amount) == usd_amount <= 0

\* if usd_amount < 0.01 (line 83)
TooSmall(usd_amount) == usd_amount < MIN_CONVERT

\* a faulty convert_coins: the quote's amounts are returned without the
\* quote having been confirmed
ConvertCoins_NoConfirm(out, fromCoin, toCoin, usd_amount) ==
    LET quote == <<"request_a_quote", fromCoin>>
        failed(cs) == [order |-> Sentinel(fromCoin, toCoin), calls |-> cs,
                       notes |-> <<"convert_error">>,
                       logs |-> <<"convert_error">>, caught |-> <<"convert">>]
    IN  IF TooSmall(usd_amount)
        THEN [order |-> Sentinel(fromCoin, toCoin), calls |-> <<>>,
              notes |-> <<>>, logs |-> <<"convert_dust">>, caught |-> <<>>]
        ELSE IF out.kind = "quote_raises" THEN failed(<<quote>>)
        ELSE [order |-> [fromCoin |-> fromCoin, toCoin |-> toCoin,
                         fromAmount |-> out.fromAmount,
                         toAmount |-> out.toAmount],
              calls |-> <<quote>>, notes |-> <<"convert_ok">>,
              logs |-> <<>>, caught |-> <<>>]

\* convert_coins(fromCoin, toCoin, accountType, usd_amount, session)
ConvertCoins(out, fromCoin, toCoin, usd_amount) ==
    LET quote == <<"request_a_quote", fromCoin>>
        confirm == <<"confirm_a_quote", fromCoin>>
        failed(cs) == [order |-> Sentinel(fromCoin, toCoin), calls |-> cs,
                       notes |-> <<"convert_error">>,
                       logs |-> <<"convert_error">>, caught |-> <<"convert">>]
    IN  IF TooSmall(usd_amount)
        THEN [order |-> Sentinel(fromCoin, toCoin), calls |-> <<>>,
              notes |-> <<>>, logs |-> <<"convert_dust">>, caught |-> <<>>]
        ELSE CASE out.kind = "quote_raises" -> failed(<<quote>>)
               [] out.kind = "confirm_raises" -> failed(<<quote, confirm>>)
               [] OTHER ->
                    [order |-> [fromCoin |-> fromCoin, toCoin |-> toCoin,
                                fromAmount |-> out.fromAmount,
                                toAmount |-> out.toAmount],
                     calls |-> <<quote, confirm>>,
                     notes |-> <<"convert_ok">>, logs |-> <<>>,
                     caught |-> <<>>]

\* log_trade(symbol, quantity, price, total_usd): the row appended; the
\* price float(order[2]) / float(order[3]) is kept as that quotient's
\* numerator and denominator
TradeRow(ord) ==
    [symbol |-> <<ord.toCoin, ord.fromCoin>>, quantity |-> ord.toAmount,
     price |-> <<ord.fromAmount, ord.toAmount>>, total_usd |-> ord.fromAmount]

\* a faulty log_trade: the file is written anew by every call
LogTrade_AlwaysCreate(file, rows, row) ==
    [file |-> [exists |-> TRUE, headers |-> 1], rows |-> <<row>>]

\* log_trade: a missing file is created with the header line and the row;
\* a file that exists gets the row appended, without a header line
LogTrade(file, rows, row) ==
    IF ~file.exists
    THEN [file |-> [exists |-> TRUE, headers |-> 1], rows |-> <<row>>]
    ELSE [file |-> file, rows |-> Append(rows, row)]

\* stake_or_redeem(session, category, order_type, account_type, amount, coin):
\* result is "True", "False" or "raise" (the exception leaves the function)
StakeOrRedeem(out, order_type, amount, coin) ==
    LET lookup == <<"get_earn_product_info", coin>>
        submit == <<IF order_type = "Redeem" THEN "redeem" ELSE "stake", coin>>
        request == [orderType |-> order_type, coin |-> coin,
                    amount |-> Round6(amount)]
    IN  CASE out = "lookup_raises" ->
               [result |-> "raise", calls |-> <<lookup>>, notes |-> <<>>,
                logs |-> <<>>, caught |-> <<>>, submit |-> <<>>]
          [] out = "no_product" ->
               [result |-> "False", calls |-> <<lookup>>,
                notes |-> <<"no_product">>, logs |-> <<"no_product">>,
                caught |-> <<>>, submit |-> <<>>]
          [] out \in {"submit_raises", "no_response"} ->
               [result |-> "False", calls |-> <<lookup, submit>>,
                notes |-> <<"earn_error">>, logs |-> <<"earn_error">>,
                caught |-> <<"earn">>, submit |-> <<request>>]
          [] out = "rejected" ->
               [result |-> "False", calls |-> <<lookup, submit>>,
                notes |-> <<"earn_error">>, logs |-> <<"earn_error">>,
                caught |-> <<>>, submit |-> <<request>>]
          [] OTHER ->
               [result |-> "True", calls |-> <<lookup, submit>>,
                notes |-> <<"earn_ok">>, logs |-> <<>>, caught |-> <<>>,
                submit |-> <<request>>]

\* float(position.get('redeemableAmount') or position.get('amount', 0.0)),
\* 0.0 when the list is empty or the query raised
Redeemable(reply) ==
    IF reply.kind # "value" THEN 0
    ELSE IF reply.redeemableAmount # None THEN reply.redeemableAmount
    ELSE reply.amount

\* the effects of a function call become those of the statement
Effects(r) ==
    /\ calls' = r.calls
    /\ notes' = r.notes
    /\ logs' = r.logs
    /\ caught' = r.caught
    /\ submitted' = IF "submit" \in DOMAIN r THEN r.submit ELSE <<>>

\* one more message and one more logged line on top of a call's effects
EffectsAnd(r, moreNotes, moreLogs) ==
    Effects([r EXCEPT !.notes = @ \o moreNotes, !.logs = @ \o moreLogs])

NoCall == [calls |-> <<>>, notes |-> <<>>, logs |-> <<>>, caught |-> <<>>]

(***************************************************************************)
(* run_dca_bot, statement by statement.                                    *)
(*                                                                         *)
(* A local variable of run_dca_bot is kept from its assignment to the      *)
(* statement that reads it last; after that no statement can tell its      *)
(* value, and the model sets it back to its initial value (Unset), so that *)
(* runs that differ only in values nothing reads again are the same state. *)
(* final_coin_balance, crypto_allocation and usd_amount_needed are read to *)
(* the end of the run.                                                     *)
(***************************************************************************)
Unset == 0
NoOrder == Sentinel("", "")

\* faulty deficit tests: a deficit of exactly zero counts as remaining;
\* the test is missing
DeficitRemains_Inclusive(deficit) == deficit >= 0
DeficitRemains_Always(deficit) == TRUE

\* a faulty final check: a balance equal to the budget is refused
InsufficientFunds_Inclusive(balance, needed) == balance <= needed

\* faulty purchase guards: an asset is skipped only when nothing is left;
\* no asset is ever skipped
CannotAfford_NothingLeft(balance, buy_amount) == balance <= 0
CannotAfford_Never(balance, buy_amount) == FALSE

\* if amount_to_cover > 0 (lines 208 and 246)
DeficitRemains(deficit) == deficit > 0

\* a faulty break test: a deficit of exactly zero does not end the loop
DeficitCovered_Strict(deficit) == deficit < 0

\* if amount_to_cover <= 0: break (line 305)
DeficitCovered(deficit) == deficit <= 0

\* if final_coin_balance < usd_amount_needed (line 316)
InsufficientFunds(balance, needed) == balance < needed

\* if final_coin_balance < buy_amount_usd: continue (line 328)
CannotAfford(balance, buy_amount) == balance < buy_amount

\* faulty output tests: the amount spent is tested, not the output;
\* only an output above the amount spent counts
HasOutput_Spent(ord) == ord.fromAmount > 0
HasOutput_MoreThanSpent(ord) == ord.toAmount > ord.fromAmount

\* if float(order[3]) > 0 (lines 298 and 345)
HasOutput(ord) == ord.toAmount > 0

\* a faulty loop step: after the first candidate the same one is taken again
NextCandidate_Retry(i) == IF i = 0 THEN 2 ELSE i

\* for stablecoin in STABLECOIN_LIST: if stablecoin == USD_TYPE: continue
\* -- the next position after i that is not the primary coin; past the end
\* of the list when there is none
NextCandidate(i) ==
    LET later == {j \in (i + 1)..Len(STABLECOIN_LIST) :
                     STABLECOIN_LIST[j] # USD_TYPE}
    IN  IF later = {} THEN Len(STABLECOIN_LIST) + 1
        ELSE CHOOSE j \in later : \A m \in later : j <= m

\* the secondary loop moves on (continue, or the end of its body)
NextStablecoin ==
    /\ stable_idx' = NextCandidate(stable_idx)
    /\ pc' = IF NextCandidate(stable_idx) > Len(STABLECOIN_LIST)
             THEN "final_read" ELSE "secondary_staked"

\* the purchase loop moves on (continue, or the end of its body)
NextAsset ==
    /\ alloc_idx' = alloc_idx + 1
    /\ pc' = IF alloc_idx + 1 > Len(crypto_allocation) THEN "exit_completed"
             ELSE "buy"

\* lines 191-198: the plan and the budget
Start ==
    /\ pc = "start"
    /\ UNCHANGED binance_vars
    /\ LET r == GetCryptoAllocation(allocString)
           msgs == <<"start">>
                     \o (IF r.warned THEN <<"alloc_warning">> ELSE <<>>)
                     \o (IF r.raised THEN <<"alloc_error">> ELSE <<>>)
                     \o (IF r.empty THEN <<"no_alloc">> ELSE <<>>)
           lines == (IF r.warned THEN <<"alloc_warning">> ELSE <<>>)
                     \o (IF r.raised THEN <<"alloc_error">> ELSE <<>>)
       IN  /\ crypto_allocation' = r.alloc
           /\ Effects([calls |-> <<>>, notes |-> msgs, logs |-> lines,
                       caught |-> IF r.raised THEN <<"alloc">> ELSE <<>>])
           /\ IF r.empty
              THEN /\ pc' = "exit_no_plan"
                   /\ UNCHANGED usd_amount_needed
              ELSE /\ pc' = "read_initial"
                   /\ usd_amount_needed' = TimesDaily(SumValues(r.alloc, 1))
    /\ UNCHANGED <<allocString, current_coin_balance, final_coin_balance,
                   amount_to_cover, redeemable_amount, amount_to_redeem,
                   stable_idx, conversion_amount, order, alloc_idx,
                   coin_balance, trade_log, log_file, covered_by, since_read>>

\* lines 201-208: the initial balance and the deficit
ReadInitialBalance ==
    /\ pc = "read_initial"
    /\ UNCHANGED binance_vars
    /\ \E reply \in WalletReplies :
         LET b == GetCoinBalance(reply, USD_TYPE)
         IN  /\ Effects(b)
             /\ current_coin_balance' = b.value
             /\ final_coin_balance' = b.value
             /\ amount_to_cover' = usd_amount_needed - b.value
             /\ pc' = IF DeficitRemains(usd_amount_needed - b.value)
                      THEN "primary_staked" ELSE "final_read"
             /\ covered_by' = IF usd_amount_needed - b.value <= 0
                              THEN "initial" ELSE covered_by
             /\ since_read' = {}
    /\ UNCHANGED <<allocString, crypto_allocation, usd_amount_needed,
                   redeemable_amount, amount_to_redeem, stable_idx,
                   conversion_amount, order, alloc_idx, coin_balance,
                   trade_log, log_file>>

\* lines 211-236: the primary coin's position in Flexible Saving
QueryPrimaryStaked ==
    /\ pc = "primary_staked"
    /\ UNCHANGED binance_vars
    /\ \E reply \in StakedReplies :
         LET raised == reply.kind = "raise"
             r == [calls |-> <<<<"get_staked_position", USD_TYPE>>>>,
                   notes |-> IF Redeemable(reply) > 0
                             THEN <<"redeem_attempt">> ELSE <<>>,
                   logs |-> IF raised THEN <<"staked_error">> ELSE <<>>,
                   caught |-> IF raised THEN <<"staked">> ELSE <<>>]
         IN  /\ Effects(r)
             /\ redeemable_amount' = Redeemable(reply)
             /\ IF Redeemable(reply) > 0
                THEN /\ amount_to_redeem' =
                          AmountToRedeem(amount_to_cover, Redeemable(reply))
                     /\ pc' = "primary_redeem"
                ELSE /\ UNCHANGED amount_to_redeem
                     /\ pc' = "primary_reread"
    /\ UNCHANGED <<allocString, crypto_allocation, usd_amount_needed,
                   current_coin_balance, final_coin_balance, amount_to_cover,
                   stable_idx, conversion_amount, order, alloc_idx,
                   coin_balance, trade_log, log_file, covered_by, since_read>>

\* lines 238-239: the primary redemption
RedeemPrimary ==
    /\ pc = "primary_redeem"
    /\ UNCHANGED binance_vars
    /\ \E out \in EarnOutcomes :
         LET r == StakeOrRedeem(out, "Redeem", amount_to_redeem, USD_TYPE)
         IN  /\ Effects(r)
             /\ pc' = IF r.result = "raise" THEN "raised" ELSE "primary_reread"
             /\ since_read' = IF r.result = "True"
                              THEN since_read \cup {"redeem_primary"}
                              ELSE since_read
    /\ redeemable_amount' = Unset
    /\ amount_to_redeem' = Unset
    /\ UNCHANGED <<allocString, crypto_allocation, usd_amount_needed,
                   current_coin_balance, final_coin_balance, amount_to_cover,
                   stable_idx, conversion_amount, order, alloc_idx,
                   coin_balance, trade_log, log_file, covered_by>>

\* lines 242-252: the balance after the primary step; the secondary loop
\* starts when a deficit remains
RereadPrimary ==
    /\ pc = "primary_reread"
    /\ UNCHANGED binance_vars
    /\ \E reply \in WalletReplies :
         LET b == GetCoinBalance(reply, USD_TYPE)
         IN  /\ Effects(b)
             /\ final_coin_balance' = b.value
             /\ amount_to_cover' = usd_amount_needed - b.value
             /\ IF DeficitRemains(usd_amount_needed - b.value)
                THEN /\ stable_idx' = NextCandidate(0)
                     /\ pc' = IF NextCandidate(0) > Len(STABLECOIN_LIST)
                              THEN "final_read" ELSE "secondary_staked"
                ELSE /\ UNCHANGED stable_idx
                     /\ pc' = "final_read"
             /\ covered_by' = IF usd_amount_needed - b.value <= 0
                              THEN "primary" ELSE covered_by
             /\ since_read' = {}
    /\ redeemable_amount' = Unset
    /\ UNCHANGED <<allocString, crypto_allocation, usd_amount_needed,
                   current_coin_balance, amount_to_redeem, conversion_amount,
                   order, alloc_idx, coin_balance, trade_log, log_file>>

\* lines 255-277: a secondary coin's position in Flexible Saving
QuerySecondaryStaked ==
    /\ pc = "secondary_staked"
    /\ UNCHANGED binance_vars
    /\ \E reply \in StakedReplies :
         LET raised == reply.kind = "raise"
             r == [calls |->
                     <<<<"get_staked_position", STABLECOIN_LIST[stable_idx]>>>>,
                   notes |-> IF Redeemable(reply) > 0
                             THEN <<"redeem_attempt">> ELSE <<>>,
                   logs |-> IF raised THEN <<"staked_error">> ELSE <<>>,
                   caught |-> IF raised THEN <<"staked">> ELSE <<>>]
         IN  /\ Effects(r)
             /\ IF Redeemable(reply) > 0
                THEN /\ redeemable_amount' = Redeemable(reply)
                     /\ amount_to_redeem' =
                          AmountToRedeem(amount_to_cover, Redeemable(reply))
                     /\ pc' = "secondary_redeem"
                     /\ UNCHANGED stable_idx
                ELSE /\ redeemable_amount' = Unset
                     /\ UNCHANGED amount_to_redeem
                     /\ NextStablecoin
    /\ order' = NoOrder
    /\ UNCHANGED <<allocString, crypto_allocation, usd_amount_needed,
                   current_coin_balance, final_coin_balance, amount_to_cover,
                   conversion_amount, alloc_idx, coin_balance, trade_log, log_file,
                   covered_by, since_read>>

\* lines 280-281: the secondary redemption
RedeemSecondary ==
    /\ pc = "secondary_redeem"
    /\ UNCHANGED binance_vars
    /\ \E out \in EarnOutcomes :
         LET r == StakeOrRedeem(out, "Redeem", amount_to_redeem,
                                STABLECOIN_LIST[stable_idx])
         IN  /\ Effects(r)
             /\ CASE r.result = "raise" ->
                       pc' = "raised" /\ UNCHANGED stable_idx
                  [] r.result = "True" ->
                       pc' = "secondary_balance" /\ UNCHANGED stable_idx
                  [] OTHER -> NextStablecoin
             /\ since_read' = IF r.result = "True"
                              THEN since_read \cup {"redeem_secondary"}
                              ELSE since_read
    /\ redeemable_amount' = Unset
    /\ amount_to_redeem' = Unset
    /\ UNCHANGED <<allocString, crypto_allocation, usd_amount_needed,
                   current_coin_balance, final_coin_balance, amount_to_cover,
                   conversion_amount, order, alloc_idx, coin_balance,
                   trade_log, log_file, covered_by>>

\* lines 285-286: the secondary coin's liquid balance, all of it to convert
ReadSecondaryBalance ==
    /\ pc = "secondary_balance"
    /\ UNCHANGED binance_vars
    /\ \E reply \in WalletReplies :
         LET b == GetCoinBalance(reply, STABLECOIN_LIST[stable_idx])
         IN  /\ Effects(b)
             /\ conversion_amount' = b.value
             /\ pc' = "secondary_convert"
    /\ UNCHANGED <<allocString, crypto_allocation, usd_amount_needed,
                   current_coin_balance, final_coin_balance, amount_to_cover,
                   redeemable_amount, amount_to_redeem, stable_idx, order,
                   alloc_idx, coin_balance, trade_log, log_file, covered_by, since_read>>

\* lines 290-298, 310-311: the conversion to the primary coin
ConvertSecondary ==
    /\ pc = "secondary_convert"
    /\ UNCHANGED binance_vars
    /\ \E out \in ConvertOutcomes(conversion_amount) :
         LET r == ConvertCoins(out, STABLECOIN_LIST[stable_idx], USD_TYPE,
                               conversion_amount)
         IN  /\ order' = r.order
             /\ IF HasOutput(r.order)
                THEN /\ Effects(r)
                     /\ pc' = "secondary_reread"
                     /\ UNCHANGED stable_idx
                ELSE /\ EffectsAnd(r, <<>>, <<"conversion_failed">>)
                     /\ NextStablecoin
             /\ since_read' =
                  IF r.caught = <<>> /\ r.calls # <<>>
                  THEN since_read \cup {IF r.order.toAmount > 0
                                        THEN "convert_output"
                                        ELSE "convert_zero"}
                  ELSE since_read
    /\ conversion_amount' = Unset
    /\ UNCHANGED <<allocString, crypto_allocation, usd_amount_needed,
                   current_coin_balance, final_coin_balance, amount_to_cover,
                   redeemable_amount, amount_to_redeem, alloc_idx,
                   coin_balance, trade_log, log_file, covered_by>>

\* lines 302-309: the balance after a conversion with output
RereadAfterConversion ==
    /\ pc = "secondary_reread"
    /\ UNCHANGED binance_vars
    /\ \E reply \in WalletReplies :
         LET b == GetCoinBalance(reply, USD_TYPE)
         IN  /\ final_coin_balance' = b.value
             /\ amount_to_cover' = usd_amount_needed - b.value
             /\ IF DeficitCovered(usd_amount_needed - b.value)
                THEN /\ Effects(b)
                     /\ pc' = "final_read"
                     /\ UNCHANGED stable_idx
                ELSE /\ EffectsAnd(b, <<>>, <<"deficit_remains">>)
                     /\ NextStablecoin
             /\ covered_by' = IF usd_amount_needed - b.value <= 0
                              THEN "secondary" ELSE covered_by
             /\ since_read' = {}
    /\ order' = NoOrder
    /\ UNCHANGED <<allocString, crypto_allocation, usd_amount_needed,
                   current_coin_balance, redeemable_amount, amount_to_redeem,
                   conversion_amount, alloc_idx, coin_balance, trade_log, log_file>>

\* lines 314-321: the final balance check; the locals of the funding steps
\* are read no more
FinalCheck ==
    /\ pc = "final_read"
    /\ UNCHANGED binance_vars
    /\ \E reply \in WalletReplies :
         LET b == GetCoinBalance(reply, USD_TYPE)
         IN  /\ final_coin_balance' = b.value
             /\ IF InsufficientFunds(b.value, usd_amount_needed)
                THEN /\ EffectsAnd(b, <<"insufficient">>, <<"insufficient">>)
                     /\ pc' = "exit_insufficient"
                     /\ UNCHANGED alloc_idx
                ELSE /\ Effects(b)
                     /\ alloc_idx' = 1
                     /\ pc' = "buy"
    /\ current_coin_balance' = Unset
    /\ amount_to_cover' = Unset
    /\ stable_idx' = 0
    /\ order' = NoOrder
    /\ since_read' = {}
    /\ UNCHANGED <<allocString, crypto_allocation, usd_amount_needed,
                   redeemable_amount, amount_to_redeem, conversion_amount,
                   coin_balance, trade_log, log_file, covered_by>>

\* multiplier * DAILY_USD of the asset the purchase loop is at
BuyAmount == TimesDaily(crypto_allocation[alloc_idx][2])
Symbol == crypto_allocation[alloc_idx][1]

\* lines 326-331: an asset the tracked balance does not cover is skipped
SkipAsset ==
    /\ pc = "buy"
    /\ UNCHANGED binance_vars
    /\ CannotAfford(final_coin_balance, BuyAmount)
    /\ EffectsAnd(NoCall, <<"skip_asset">>, <<"skip_asset">>)
    /\ NextAsset
    /\ coin_balance' = Unset
    /\ UNCHANGED <<allocString, crypto_allocation, usd_amount_needed,
                   current_coin_balance, final_coin_balance, amount_to_cover,
                   redeemable_amount, amount_to_redeem, stable_idx,
                   conversion_amount, order, trade_log, log_file, covered_by, since_read>>

\* lines 333-353: the purchase, its ledger row and the tracked balance
BuyAsset ==
    /\ pc = "buy"
    /\ UNCHANGED binance_vars
    /\ ~CannotAfford(final_coin_balance, BuyAmount)
    /\ \E out \in ConvertOutcomes(BuyAmount) :
         LET r == ConvertCoins(out, USD_TYPE, Symbol, BuyAmount)
         IN  /\ Effects([r EXCEPT !.notes = <<"buying">> \o @])
             /\ order' = r.order
             /\ IF HasOutput(r.order)
                THEN /\ LET f == LogTrade(log_file, trade_log,
                                           TradeRow(r.order))
                         IN  trade_log' = f.rows /\ log_file' = f.file
                     /\ final_coin_balance' =
                          final_coin_balance - r.order.fromAmount
                ELSE UNCHANGED <<trade_log, log_file, final_coin_balance>>
    /\ pc' = "asset_balance"
    /\ coin_balance' = Unset
    /\ UNCHANGED <<allocString, crypto_allocation, usd_amount_needed,
                   current_coin_balance, amount_to_cover, redeemable_amount,
                   amount_to_redeem, stable_idx, conversion_amount, alloc_idx,
                   covered_by, since_read>>

\* lines 357-371: the bought asset's balance and what follows from it
ReadAssetBalance ==
    /\ pc = "asset_balance"
    /\ UNCHANGED binance_vars
    /\ \E reply \in WalletReplies :
         LET b == GetCoinBalance(reply, Symbol)
         IN  /\ coin_balance' = b.value
             /\ CASE Symbol = "SOL" /\ b.value >= SOL_STAKE_MIN ->
                       /\ Effects(b)
                       /\ pc' = "stake"
                       /\ UNCHANGED alloc_idx
                  [] Symbol = "ETH" /\ b.value >= ETH_MANUAL_MIN ->
                       /\ EffectsAnd(b, <<"manual_action">>, <<>>)
                       /\ NextAsset
                  [] OTHER ->
                       /\ Effects(b)
                       /\ NextAsset
    /\ order' = NoOrder
    /\ UNCHANGED <<allocString, crypto_allocation, usd_amount_needed,
                   current_coin_balance, final_coin_balance, amount_to_cover,
                   redeemable_amount, amount_to_redeem, stable_idx,
                   conversion_amount, trade_log, log_file, covered_by, since_read>>

\* lines 360-367: staking the bought SOL
StakeAsset ==
    /\ pc = "stake"
    /\ UNCHANGED binance_vars
    /\ \E out \in EarnOutcomes :
         LET r == StakeOrRedeem(out, "Stake", coin_balance, Symbol)
         IN  /\ Effects(r)
             /\ IF r.result = "raise"
                THEN pc' = "raised" /\ UNCHANGED alloc_idx
                ELSE NextAsset
    /\ coin_balance' = Unset
    /\ UNCHANGED <<allocString, crypto_allocation, usd_amount_needed,
                   current_coin_balance, final_coin_balance, amount_to_cover,
                   redeemable_amount, amount_to_redeem, stable_idx,
                   conversion_amount, order, trade_log, log_file, covered_by, since_read>>

Next ==
    \/ Start
    \/ ReadInitialBalance
    \/ QueryPrimaryStaked
    \/ RedeemPrimary
    \/ RereadPrimary
    \/ QuerySecondaryStaked
    \/ RedeemSecondary
    \/ ReadSecondaryBalance
    \/ ConvertSecondary
    \/ RereadAfterConversion
    \/ FinalCheck
    \/ SkipAsset
    \/ BuyAsset
    \/ ReadAssetBalance
    \/ StakeAsset

Spec == Init /\ [][Next]_vars

\* the runs whose string may hold a fraction below 0 or above 1
InitSignedFractions == InitWith(SignedStrings)
SpecSignedFractions == InitSignedFractions /\ [][Next]_vars

\* the runs whose plan names every asset
InitThreeAssets == InitWith(ThreeAssetStrings)
SpecThreeAssets == InitThreeAssets /\ [][Next]_vars

(***************************************************************************)
(* The Binance bot (src/binance_dca.py): one run of daily_dca              *)
(***************************************************************************)
\* the settings, amounts in model units and ratios in units of 1/FracScale
DAILY_USDC == 13 * USD
ETH_RATIO == 6000
SOL_RATIO == 4000
MIN_REQUIRED_BALANCE == DAILY_USDC

\* DAILY_USDC * ratio
TimesDailyUsdc(ratio) == ratio * (DAILY_USDC \div FracScale)

\* client.user_asset(asset="USDC"): it raises, returns an empty list, or a
\* list whose first entry holds the free balance
FreeAmounts == {0, 5 * USD, MIN_REQUIRED_BALANCE - 1, MIN_REQUIRED_BALANCE,
                MIN_REQUIRED_BALANCE + 1, 50 * USD}
UserAssetReplies ==
    {[kind |-> "raises", free |-> 0], [kind |-> "empty", free |-> 0]}
      \cup {[kind |-> "list", free |-> f] : f \in FreeAmounts}

\* client.redeem_flexible_product: a reply with success true or false, a
\* ClientError, another exception
RedeemOutcomes == {"success", "refused", "client_error", "error"}

\* client.new_order: it raises, or returns an order with its list of fills
FillQtys == {1, 2}
FillPrice == 2000
OrderReplies ==
    {[kind |-> "raises", qty |-> 0], [kind |-> "no_fills", qty |-> 0]}
      \cup {[kind |-> "filled", qty |-> q] : q \in FillQtys}

\* client.subscribe_flexible_product
SubscribeOutcomes == {"success", "refused", "raises"}

\* the trade log a run may find: none, or one row of an earlier run
EarlierLedgers ==
    {<<>>, <<[symbol |-> "ETHUSDC", quantity |-> 1, price |-> FillPrice,
              total_usdc |-> TimesDailyUsdc(ETH_RATIO)]>>}

\* get_usdc_balance: the free balance, 0.0 for an empty reply, and 0.0
\* with a message when the call raises
GetUsdcBalance(reply) ==
    IF reply.kind = "raises"
    THEN [value |-> 0, notes |-> <<"balance_error">>]
    ELSE IF reply.kind = "empty"
    THEN [value |-> 0, notes |-> <<>>]
    ELSE [value |-> reply.free, notes |-> <<>>]

\* redeem_usdc_from_flexible(amount): the request is for DAILY_USDC; after
\* a ClientError response is unbound at line 54, a reply without success
\* has no attribute text at line 59, another exception is not handled
RedeemUsdcFromFlexible(amount, outcome) ==
    [requests |-> <<DAILY_USDC>>,
     raised |-> outcome # "success",
     notes |-> IF outcome = "success" THEN <<"unstaked">> ELSE <<>>]

\* binance_dca.log_trade: the first row creates the file with its header,
\* later rows are appended
LogTradeCsv(file, rows, row) ==
    IF ~file.exists
    THEN [file |-> [exists |-> TRUE, headers |-> 1], rows |-> <<row>>]
    ELSE [file |-> file, rows |-> Append(rows, row)]

\* subscribe_to_flexible_savings: one request, one message whatever happens
SubscribeToFlexibleSavings(asset, amount, outcome) ==
    [requests |-> <<<<asset, amount>>>>,
     notes |-> IF outcome = "success" THEN <<"subscribed">>
               ELSE IF outcome = "refused" THEN <<"subscribe_failed">>
               ELSE <<"subscribe_error">>]

\* symbol.replace('USDC', '')
Asset(symbol) == IF symbol = "ETHUSDC" THEN "ETH" ELSE "SOL"

\* buy_crypto(symbol, usdc_amount): the order, then with its first fill
\* the ledger row, the message and the subscription; every exception ends
\* in a message
BuyCrypto(symbol, usdc_amount, file, rows, reply, subscribed) ==
    IF reply.kind = "filled"
    THEN LET logged == LogTradeCsv(file, rows,
                         [symbol |-> symbol, quantity |-> reply.qty,
                          price |-> FillPrice, total_usdc |-> usdc_amount])
             sub == SubscribeToFlexibleSavings(Asset(symbol), reply.qty,
                                               subscribed)
         IN  [orders |-> <<<<symbol, usdc_amount>>>>,
              file |-> logged.file, rows |-> logged.rows,
              subs |-> sub.requests,
              notes |-> <<"bought">> \o sub.notes]
    ELSE [orders |-> <<<<symbol, usdc_amount>>>>,
          file |-> file, rows |-> rows, subs |-> <<>>,
          notes |-> <<"buy_error">>]

\* a faulty line 153: only an empty wallet takes the redemption branch
BelowRequired_OnlyEmpty(bal) == bal <= 0

\* line 153: balance < MIN_REQUIRED_BALANCE
BelowRequired(bal) == bal < MIN_REQUIRED_BALANCE

\* lines 150-153: the start message, the balance and the branch
ReadUsdcBalance ==
    /\ dca_pc = "start"
    /\ \E reply \in UserAssetReplies :
         LET r == GetUsdcBalance(reply)
         IN  /\ usdc_balance' = r.value
             /\ dca_notes' = <<"start">> \o r.notes
             /\ dca_pc' = IF BelowRequired(r.value) THEN "redeem"
                          ELSE "buy_eth"
    /\ UNCHANGED <<redemptions, buy_orders, subscriptions, binance_log,
                   binance_log_file>>
    /\ UNCHANGED bybit_vars

\* line 154: the redemption from flexible savings
RedeemUsdc ==
    /\ dca_pc = "redeem"
    /\ \E outcome \in RedeemOutcomes :
         LET r == RedeemUsdcFromFlexible(MIN_REQUIRED_BALANCE, outcome)
         IN  /\ redemptions' = redemptions \o r.requests
             /\ dca_notes' = r.notes
             /\ dca_pc' = IF r.raised THEN "raised" ELSE "wait"
    /\ UNCHANGED <<usdc_balance, buy_orders, subscriptions, binance_log,
                   binance_log_file>>
    /\ UNCHANGED bybit_vars

\* lines 155-161: the wait, the message and the return
SkipTrade ==
    /\ dca_pc = "wait"
    /\ dca_notes' = <<"skipping">>
    /\ dca_pc' = "skipped"
    /\ UNCHANGED <<usdc_balance, redemptions, buy_orders, subscriptions,
                   binance_log, binance_log_file>>
    /\ UNCHANGED bybit_vars

\* the effect of one buy_crypto call on the state
Bought(r) ==
    /\ buy_orders' = buy_orders \o r.orders
    /\ subscriptions' = subscriptions \o r.subs
    /\ binance_log' = r.rows
    /\ binance_log_file' = r.file
    /\ dca_notes' = r.notes

\* line 163: buy_crypto('ETHUSDC', DAILY_USDC * ETH_RATIO)
BuyEth ==
    /\ dca_pc = "buy_eth"
    /\ \E reply \in OrderReplies, subscribed \in SubscribeOutcomes :
         Bought(BuyCrypto("ETHUSDC", TimesDailyUsdc(ETH_RATIO),
                          binance_log_file, binance_log, reply, subscribed))
    /\ dca_pc' = "buy_sol"
    /\ UNCHANGED <<usdc_balance, redemptions>>
    /\ UNCHANGED bybit_vars

\* line 164: buy_crypto('SOLUSDC', DAILY_USDC * SOL_RATIO)
BuySol ==
    /\ dca_pc = "buy_sol"
    /\ \E reply \in OrderReplies, subscribed \in SubscribeOutcomes :
         Bought(BuyCrypto("SOLUSDC", TimesDailyUsdc(SOL_RATIO),
                          binance_log_file, binance_log, reply, subscribed))
    /\ dca_pc' = "pnl"
    /\ UNCHANGED <<usdc_balance, redemptions>>
    /\ UNCHANGED bybit_vars

\* the symbols of the ledger: trades['symbol'].unique()
LoggedSymbols == {binance_log[i].symbol : i \in DOMAIN binance_log}

\* lines 166-188: the completion message, then one PnL message for each
\* symbol of the ledger until reading the file or a price raises
ReportPnl ==
    /\ dca_pc = "pnl"
    /\ \E priced \in 0..Cardinality(LoggedSymbols) :
         /\ ~binance_log_file.exists => priced = 0
         /\ dca_notes' = <<"completed">>
                           \o [i \in 1..priced |-> "pnl"]
                           \o (IF \/ priced < Cardinality(LoggedSymbols)
                                  \/ ~binance_log_file.exists
                               THEN <<"pnl_error">> ELSE <<>>)
    /\ dca_pc' = "completed"
    /\ UNCHANGED <<usdc_balance, redemptions, buy_orders, subscriptions,
                   binance_log, binance_log_file>>
    /\ UNCHANGED bybit_vars

NextDailyDca ==
    \/ ReadUsdcBalance
    \/ RedeemUsdc
    \/ SkipTrade
    \/ BuyEth
    \/ BuySol
    \/ ReportPnl

\* one run of daily_dca, the Bybit bot idle
InitDailyDca == DcaIdle(EarlierLedgers) /\ RunDcaBotIdle({<<>>})
SpecDailyDca == InitDailyDca /\ [][NextDailyDca]_vars

(***************************************************************************)
(* Helpers of the properties                                               *)
(***************************************************************************)
Range(seq) == {seq[i] : i \in DOMAIN seq}
Count(seq, x) == Cardinality({i \in DOMAIN seq : seq[i] = x})

SecondaryCoins == Range(STABLECOIN_LIST) \ {USD_TYPE}

FundingPcs == {"read_initial", "primary_staked", "primary_redeem",
               "primary_reread", "secondary_staked", "secondary_redeem",
               "secondary_balance", "secondary_convert", "secondary_reread",
               "final_read"}
PurchasePcs == {"buy", "asset_balance", "stake"}
ExitPcs == {"exit_no_plan", "exit_insufficient", "exit_completed", "raised"}

TypeOK ==
    /\ pc \in {"start"} \cup FundingPcs \cup PurchasePcs \cup ExitPcs
    /\ allocString \in AllocStrings
    /\ \A i \in DOMAIN crypto_allocation :
         crypto_allocation[i][1] \in AssetSymbols
    /\ \A i \in DOMAIN calls : calls[i] \in Ops \X Coins
    /\ Range(notes) \subseteq NoteKinds
    /\ Range(logs) \subseteq LogKinds
    /\ Range(caught) \subseteq CatchPlaces
    /\ covered_by \in {"", "initial", "primary", "secondary"}
    /\ stable_idx \in 0..(Len(STABLECOIN_LIST) + 1)
    /\ log_file \in [exists : BOOLEAN, headers : 0..1]
    /\ since_read \subseteq {"redeem_primary", "redeem_secondary",
                              "convert_zero", "convert_output"}

\* a pair of the allocation string that is not SYMBOL:fraction: no ':' or
\* more than one, or a fraction that is not a number
BadPair(p) == p.colons # 1 \/ p.val = NotANumber
HasBadPair(str) == \E i \in DOMAIN str : BadPair(str[i])

\* the statement executed last called the exchange for a position, a
\* redemption or a conversion into the primary coin
MadeFundingCall ==
    \E i \in DOMAIN calls :
        \/ calls[i][1] \in {"get_staked_position", "redeem"}
        \/ calls[i][1] \in {"request_a_quote", "confirm_a_quote"}
             /\ calls[i][2] # USD_TYPE

\* the statement executed last called the exchange about a secondary coin
MadeSecondaryCall == \E i \in DOMAIN calls : calls[i][2] \in SecondaryCoins

\* the statement executed last requested a purchase, staked, or logged a trade
MadePurchaseCall ==
    \/ \E i \in DOMAIN calls :
          \/ calls[i][1] \in {"request_a_quote", "confirm_a_quote"}
               /\ calls[i][2] = USD_TYPE
          \/ calls[i][1] = "stake"
    \/ \E i \in DOMAIN submitted : submitted[i].orderType = "Stake"

(***************************************************************************)
(* C1                                                                      *)
(***************************************************************************)
\* C1: every redemption run_dca_bot hands to stake_or_redeem (primary or
\* secondary) has an amount of at least MIN_REDEMPTION_USD and of at most
\* the redeemable amount just read for that coin.
C1_RedemptionWithinClamp ==
    pc \in {"primary_redeem", "secondary_redeem"} =>
        /\ amount_to_redeem >= MIN_REDEMPTION_USD
        /\ amount_to_redeem <= redeemable_amount

(***************************************************************************)
(* C2                                                                      *)
(***************************************************************************)
\* C2: when a pair of the allocation string fails to parse, the plan is
\* empty and the run ends before any exchange call.
C2_BadPairNoPlanNoCall ==
    (HasBadPair(allocString) /\ pc # "start") =>
        /\ crypto_allocation = <<>>
        /\ pc = "exit_no_plan"
        /\ calls = <<>>

(***************************************************************************)
(* C3                                                                      *)
(***************************************************************************)
\* C3: when the final read of the primary balance is below the budget the
\* run ends there: no purchase was requested, no trade row was written, no
\* stake was submitted, and exactly one insufficient-funds message was
\* sent; otherwise the run enters the purchase loop (and sends none).
C3_AbortBeforePurchase ==
    /\ pc = "exit_insufficient" =>
         /\ final_coin_balance < usd_amount_needed
         /\ trade_log = <<>>
         /\ ~MadePurchaseCall
         /\ Count(notes, "insufficient") = 1
    /\ pc \in {"start", "exit_no_plan"} \cup FundingPcs =>
         /\ trade_log = <<>>
         /\ ~MadePurchaseCall
         /\ Count(notes, "insufficient") = 0
    /\ (pc = "buy" /\ alloc_idx = 1) =>
         /\ final_coin_balance >= usd_amount_needed
         /\ trade_log = <<>>
    /\ pc \in PurchasePcs \cup {"exit_completed"} =>
         Count(notes, "insufficient") = 0

C3_Witness ==
    /\ pc = "exit_insufficient"
    /\ covered_by = "secondary"
    /\ Count(notes, "insufficient") = 1

(***************************************************************************)
(* C4                                                                      *)
(***************************************************************************)
\* C4: when the initial primary balance is at least the budget, the run
\* goes from the initial read straight to the final check, and no
\* statement of the run queries a staked position, submits a redemption or
\* converts a stablecoin into the primary coin.
C4_NoFundingCallWhenCovered ==
    /\ (pc \in FundingPcs \ {"read_initial"}
          /\ current_coin_balance >= usd_amount_needed) =>
         (covered_by = "initial" /\ pc = "final_read")
    /\ covered_by = "initial" => (~MadeFundingCall /\ stable_idx = 0)

C4_Witness ==
    /\ covered_by = "initial"
    /\ pc = "buy"
    /\ usd_amount_needed > 0

(***************************************************************************)
(* C5                                                                      *)
(***************************************************************************)
\* C5: when the balance read after the primary redemption step shows no
\* deficit, no statement of the run calls the exchange about a secondary
\* stablecoin and the secondary loop is never entered.
C5_NoSecondaryWhenPrimaryCovers ==
    covered_by = "primary" =>
        /\ ~MadeSecondaryCall
        /\ stable_idx = 0
        /\ pc \notin {"secondary_staked", "secondary_redeem",
                      "secondary_balance", "secondary_convert",
                      "secondary_reread"}

C5_Witness ==
    /\ covered_by = "primary"
    /\ pc = "final_read"
    /\ usd_amount_needed > 0
    /\ final_coin_balance >= usd_amount_needed

(***************************************************************************)
(* C6                                                                      *)
(***************************************************************************)
\* C6 as claimed: in the purchase loop the tracked remaining balance is
\* never below zero, whatever amounts the conversions report as spent.
C6_TrackedBalanceNeverNegative ==
    pc \in PurchasePcs \cup {"exit_completed"} => final_coin_balance >= 0

\* C6 as amended: a purchase is requested only when the tracked balance is
\* at least the buy amount, so a statement of the purchase loop that starts
\* with a tracked balance of at least zero ends with one of at least zero
\* whenever the conversion reports as spent at most the amount requested.
C6_NonNegativeWhenSpentWithinRequest ==
    [][(/\ pc = "buy"
        /\ final_coin_balance >= 0
        /\ order'.fromAmount <= BuyAmount) => final_coin_balance' >= 0]_vars

C6_Witness ==
    /\ pc = "asset_balance"
    /\ HasOutput(order)
    /\ order.fromAmount = TimesDaily(crypto_allocation[alloc_idx][2])
    /\ final_coin_balance = 0

(***************************************************************************)
(* C7                                                                      *)
(***************************************************************************)
\* C7: stake_or_redeem never raises to its caller: no run ends with an
\* exception that left stake_or_redeem.
C7_StakeOrRedeemNeverRaises == pc # "raised"

(***************************************************************************)
(* C8                                                                      *)
(***************************************************************************)
\* the message and the log line of each except block
ErrorMessage(place) ==
    CASE place = "balance" -> "balance_error"
      [] place = "convert" -> "convert_error"
      [] place = "earn" -> "earn_error"
      [] place = "alloc" -> "alloc_error"
      [] OTHER -> "staked_error"

\* C8: every statement that catches a failure both logs a line and sends a
\* message about it.
C8_CaughtFailureLoggedAndNotified ==
    \A i \in DOMAIN caught :
        /\ ErrorMessage(caught[i]) \in Range(logs)
        /\ ErrorMessage(caught[i]) \in Range(notes)

(***************************************************************************)
(* C9                                                                      *)
(***************************************************************************)
\* C9: a convert_coins call with an amount below 0.01, from the funding
\* steps or from the purchase loop, makes no exchange call and returns the
\* zero-amount tuple.
C9_DustNeverReachesExchange ==
    [][(\/ pc = "secondary_convert" /\ conversion_amount < MIN_CONVERT
        \/ pc = "buy" /\ pc' = "asset_balance" /\ BuyAmount < MIN_CONVERT)
         => /\ calls' = <<>>
            /\ order'.fromAmount = 0
            /\ order'.toAmount = 0]_vars

C9_Witness ==
    /\ pc = "asset_balance"
    /\ "convert_dust" \in Range(logs)
    /\ calls = <<>>
    /\ order = Sentinel(USD_TYPE, "BTC")

(***************************************************************************)
(* C10                                                                     *)
(***************************************************************************)
\* C10: with a deficit > 0 and a redeemable amount > 0, the amount handed
\* to the redemption is max(deficit * BUFFER, MIN_REDEMPTION) when that is
\* at most the redeemable amount, and the redeemable amount otherwise; for
\* budget 100, balance 30 and redeemable 80 it is 71.05.
C10_RedeemAmountFormula ==
    /\ pc \in {"primary_redeem", "secondary_redeem"} =>
         LET wanted == Max(WithBuffer(amount_to_cover), MIN_REDEMPTION_USD)
         IN  /\ amount_to_cover > 0
             /\ redeemable_amount > 0
             /\ amount_to_redeem = IF wanted <= redeemable_amount
                                   THEN wanted ELSE redeemable_amount
    /\ (/\ pc = "primary_redeem"
        /\ usd_amount_needed = 100 * USD
        /\ final_coin_balance = 30 * USD
        /\ redeemable_amount = 80 * USD) =>
         amount_to_redeem = 7105 * (USD \div 100)

C10_Witness ==
    /\ pc = "primary_redeem"
    /\ usd_amount_needed = 100 * USD
    /\ final_coin_balance = 30 * USD
    /\ redeemable_amount = 80 * USD
    /\ amount_to_redeem = 7105 * (USD \div 100)

(***************************************************************************)
(* C11                                                                     *)
(***************************************************************************)
\* every piece of the string is SYMBOL:fraction with a numeric fraction
FullyParseable(str) ==
    /\ str # <<>>
    /\ \A i \in 1..Len(str) : ~BadPair(str[i])

RECURSIVE StringSum(_, _)
StringSum(str, i) ==
    IF i > Len(str) THEN 0 ELSE str[i].val + StringSum(str, i + 1)

WithinTolerance(total) ==
    /\ total >= FracScale - FracScale \div 1000
    /\ total <= FracScale + FracScale \div 1000

\* the plan holds, for each symbol of the string, the fraction of the last
\* piece that names it, unchanged
PlanAsGiven(str, plan) ==
    /\ \A i \in 1..Len(str) : \E k \in 1..Len(plan) :
          plan[k][1] = Upper(str[i].sym)
    /\ \A k \in 1..Len(plan) : \E i \in 1..Len(str) :
          /\ plan[k] = <<Upper(str[i].sym), str[i].val>>
          /\ \A j \in (i + 1)..Len(str) : Upper(str[j].sym) # plan[k][1]
    /\ \A k, l \in 1..Len(plan) : plan[k][1] = plan[l][1] => k = l

\* C11 as claimed: for a fully parseable string, no warning when the
\* fractions written in the string sum to 1.0 within 0.001, exactly one
\* warning otherwise, and in both cases the run goes on with a plan that
\* holds every fraction of the string as written.
C11_WarningBySumOfStringFractions ==
    (pc \in {"read_initial", "exit_no_plan"} /\ FullyParseable(allocString)) =>
        /\ pc = "read_initial"
        /\ Count(notes, "alloc_warning") =
             (IF WithinTolerance(StringSum(allocString, 1)) THEN 0 ELSE 1)
        /\ SumValues(crypto_allocation, 1) = StringSum(allocString, 1)

\* C11 as amended: for a fully parseable string the plan holds one
\* fraction per symbol (the last one written for it), unchanged; no warning
\* is sent when the fractions of the plan sum to 1.0 within 0.001 and
\* exactly one warning otherwise; the run goes on with that plan and the
\* budget is the plan's sum times the daily spend.
C11_WarningBySumOfPlanFractions ==
    (pc \in {"read_initial", "exit_no_plan"} /\ FullyParseable(allocString)) =>
        /\ pc = "read_initial"
        /\ PlanAsGiven(allocString, crypto_allocation)
        /\ Count(notes, "alloc_warning") =
             (IF WithinTolerance(SumValues(crypto_allocation, 1))
              THEN 0 ELSE 1)
        /\ Count(logs, "alloc_warning") = Count(notes, "alloc_warning")
        /\ usd_amount_needed =
             SumValues(crypto_allocation, 1) * (DAILY_USD \div FracScale)

C11_Witness ==
    /\ pc = "read_initial"
    /\ FullyParseable(allocString)
    /\ Len(crypto_allocation) = 2
    /\ Count(notes, "alloc_warning") = 1
    /\ usd_amount_needed = 60 * USD

(***************************************************************************)
(* C12                                                                     *)
(***************************************************************************)
\* the statements of run_dca_bot that call get_coin_balance, and the
\* variable each assigns the result to
BalanceReadPcs ==
    {"read_initial", "primary_reread", "secondary_balance",
     "secondary_reread", "final_read", "asset_balance"}

\* C12: get_coin_balance never raises: a statement that calls it never ends
\* the run with an exception; when the query fails the value assigned is 0
\* (with a log line and a message), an empty result gives 0, and every other
\* value is the wallet balance rounded to 6 decimals.
C12_GetCoinBalanceNeverRaises ==
    [][(pc \in BalanceReadPcs) =>
         LET written == IF pc = "secondary_balance" THEN conversion_amount'
                        ELSE IF pc = "asset_balance" THEN coin_balance'
                        ELSE final_coin_balance'
         IN  /\ pc' # "raised"
             /\ Count(calls', <<"get_wallet_balance", calls'[1][2]>>) = 1
             /\ "balance" \in Range(caught') =>
                  (written = 0 /\ "balance_error" \in Range(notes')
                               /\ "balance_error" \in Range(logs'))
             /\ written \in {0} \cup {Round6(a) : a \in WalletAmounts}
             /\ \A reply \in WalletReplies, coin \in Coins :
                  reply.kind \in {"raise", "empty"} =>
                      GetCoinBalance(reply, coin).value = 0]_vars

C12_Witness ==
    /\ pc = "primary_staked"
    /\ caught = <<"balance">>
    /\ final_coin_balance = 0
    /\ amount_to_cover = usd_amount_needed

(***************************************************************************)
(* C13                                                                     *)
(***************************************************************************)
\* C13: a run with a plan ends, whatever the exchange answers, either
\* after the purchase loop or with the insufficient-funds abort, and in no
\* other way.
C13_OnlyTwoEndings ==
    (crypto_allocation # <<>> /\ ~ENABLED Next) =>
        pc \in {"exit_completed", "exit_insufficient"}

(***************************************************************************)
(* C14                                                                     *)
(***************************************************************************)
\* C14: starting from a missing file, the ledger holds one header line and
\* then the rows of the log_trade calls made so far, in call order: the
\* first call creates the file with the header, every call adds its own
\* row at the end, and no statement changes, reorders or removes an
\* earlier row or adds a second header.
C14_LedgerAppendOnly ==
    [][/\ (pc = "buy" /\ pc' = "asset_balance" /\ HasOutput(order')) =>
            /\ trade_log' = Append(trade_log, TradeRow(order'))
            /\ log_file' = [exists |-> TRUE, headers |-> 1]
       /\ ~(pc = "buy" /\ pc' = "asset_balance" /\ HasOutput(order')) =>
            UNCHANGED <<trade_log, log_file>>
       /\ log_file.exists <=> trade_log # <<>>
       /\ log_file.exists => log_file.headers = 1]_vars

C14_Witness ==
    /\ Len(trade_log) = 2
    /\ log_file = [exists |-> TRUE, headers |-> 1]
    /\ trade_log[1].symbol = <<"ETH", USD_TYPE>>
    /\ trade_log[2].symbol = <<"SOL", USD_TYPE>>

(***************************************************************************)
(* C15                                                                     *)
(***************************************************************************)
SecondaryPcs ==
    {"secondary_staked", "secondary_redeem", "secondary_balance",
     "secondary_convert", "secondary_reread"}

\* C15: the secondary loop takes the stablecoins in the order of the list,
\* never the primary coin and never passing over another one; every call
\* it makes about a stablecoin is about the candidate it is at; when the
\* re-read after a conversion with output shows a deficit <= 0 the loop
\* ends and no later candidate is queried, redeemed or converted; when the
\* deficit is still > 0 the loop goes on with the next candidate.
C15_CandidatesInOrderUntilCovered ==
    [][/\ pc' \in SecondaryPcs =>
            /\ stable_idx' \in 1..Len(STABLECOIN_LIST)
            /\ STABLECOIN_LIST[stable_idx'] # USD_TYPE
            /\ stable_idx' >= stable_idx
            /\ \A k \in (stable_idx + 1)..(stable_idx' - 1) :
                  STABLECOIN_LIST[k] = USD_TYPE
            /\ stable_idx' # stable_idx => pc' = "secondary_staked"
       /\ pc \in SecondaryPcs =>
            \A i \in DOMAIN calls' :
                calls'[i][2] # USD_TYPE =>
                    calls'[i][2] = STABLECOIN_LIST[stable_idx]
       /\ pc = "secondary_reread" =>
            /\ HasOutput(order)
            /\ amount_to_cover' = usd_amount_needed - final_coin_balance'
            /\ amount_to_cover' <= 0 => pc' = "final_read"
            /\ amount_to_cover' > 0 =>
                 \/ pc' = "secondary_staked" /\ stable_idx' > stable_idx
                 \/ /\ pc' = "final_read"
                    /\ \A k \in (stable_idx + 1)..Len(STABLECOIN_LIST) :
                          STABLECOIN_LIST[k] = USD_TYPE
       /\ covered_by = "secondary" =>
            (pc' \notin SecondaryPcs /\ ~MadeSecondaryCall')]_vars

C15_Witness ==
    /\ covered_by = "secondary"
    /\ pc = "final_read"
    /\ stable_idx = 2
    /\ Len(STABLECOIN_LIST) = 3

(***************************************************************************)
(* C16                                                                     *)
(***************************************************************************)
\* C16 as claimed: whenever a redemption amount has been computed, or the
\* secondary loop is about to take a candidate, the deficit in use comes
\* from a primary balance read after the last redemption submitted with
\* success and after the last conversion confirmed.
C16_DeficitReadAfterEveryAction ==
    pc \in {"primary_redeem", "secondary_staked", "secondary_redeem"} =>
        /\ amount_to_cover = usd_amount_needed - final_coin_balance
        /\ since_read = {}

\* C16 as amended: the deficit in use is the budget minus the primary
\* balance read last, and that read comes after the primary redemption and
\* after every conversion with an output above zero; a secondary
\* redemption whose conversion gave no output is followed by no read, and
\* the next candidate's redemption amount is computed from the deficit as
\* it was before.
C16_DeficitReadAfterPrimaryChange ==
    pc \in {"primary_redeem", "secondary_staked", "secondary_redeem"} =>
        /\ amount_to_cover = usd_amount_needed - final_coin_balance
        /\ amount_to_cover > 0
        /\ since_read \subseteq {"redeem_secondary", "convert_zero"}
        /\ pc # "secondary_staked" =>
             amount_to_redeem = AmountToRedeem(amount_to_cover,
                                               redeemable_amount)

C16_Witness ==
    /\ pc = "secondary_redeem"
    /\ stable_idx = 3
    /\ since_read = {"redeem_secondary"}
    /\ amount_to_cover = usd_amount_needed - final_coin_balance

(***************************************************************************)
(* C17                                                                     *)
(***************************************************************************)
\* how far the run has come: the statements of run_dca_bot in program
\* order, the loop bodies once for each position of their loop
Progress ==
    CASE pc = "start" -> 0
      [] pc = "read_initial" -> 1
      [] pc = "primary_staked" -> 2
      [] pc = "primary_redeem" -> 3
      [] pc = "primary_reread" -> 4
      [] pc = "secondary_staked" -> 10 * stable_idx + 5
      [] pc = "secondary_redeem" -> 10 * stable_idx + 6
      [] pc = "secondary_balance" -> 10 * stable_idx + 7
      [] pc = "secondary_convert" -> 10 * stable_idx + 8
      [] pc = "secondary_reread" -> 10 * stable_idx + 9
      [] pc = "final_read" -> 10 * (Len(STABLECOIN_LIST) + 1)
      [] pc = "buy" -> 10 * (Len(STABLECOIN_LIST) + 1 + alloc_idx)
      [] pc = "asset_balance" -> 10 * (Len(STABLECOIN_LIST) + 1 + alloc_idx) + 1
      [] pc = "stake" -> 10 * (Len(STABLECOIN_LIST) + 1 + alloc_idx) + 2
      [] OTHER -> 10 * (Len(STABLECOIN_LIST) + 2 + Len(allocString))

\* C17: nothing is retried: no statement is executed twice for the same
\* currency, a redemption is submitted only by the one redemption statement
\* of the currency the run is at and a stablecoin conversion only by that
\* currency's one conversion statement, each once; after a redemption or
\* conversion without success the run goes on to the next step or the next
\* candidate.
C17_NoRetry ==
    [][/\ Progress' > Progress
       /\ Len(submitted') <= 1
       /\ \A i \in DOMAIN submitted' :
            submitted'[i].orderType = "Redeem" =>
                \/ pc = "primary_redeem" /\ submitted'[i].coin = USD_TYPE
                \/ /\ pc = "secondary_redeem"
                   /\ submitted'[i].coin = STABLECOIN_LIST[stable_idx]
       /\ \A c \in SecondaryCoins :
            /\ Count(calls', <<"request_a_quote", c>>) <= 1
            /\ Count(calls', <<"confirm_a_quote", c>>) <= 1
            /\ <<"request_a_quote", c>> \in Range(calls') =>
                 (pc = "secondary_convert" /\ c = STABLECOIN_LIST[stable_idx])
       /\ (pc = "primary_redeem" /\ pc' # "raised") => pc' = "primary_reread"
       /\ (pc = "secondary_redeem"
              /\ pc' \notin {"raised", "secondary_balance"}) =>
            stable_idx' > stable_idx
       /\ (pc = "secondary_convert" /\ pc' # "secondary_reread") =>
            stable_idx' > stable_idx]_vars

C17_Witness ==
    /\ pc = "secondary_staked"
    /\ stable_idx = 3
    /\ caught = <<"earn">>
    /\ submitted # <<>>

(***************************************************************************)
(* C18                                                                     *)
(***************************************************************************)
\* C18: in the purchase loop an asset whose buy amount is above the tracked
\* balance is skipped: one message is sent, no exchange call is made, no
\* row is logged, nothing is staked, the tracked balance stays as it is,
\* and the loop goes on with the next asset of the plan (the run ends only
\* after the last one).
C18_SkippedAssetLeavesNoTrace ==
    [][(pc = "buy" /\ final_coin_balance <
                        crypto_allocation[alloc_idx][2]
                            * (DAILY_USD \div FracScale)) =>
          /\ Count(notes', "skip_asset") = 1
          /\ Len(notes') = 1
          /\ calls' = <<>>
          /\ submitted' = <<>>
          /\ UNCHANGED <<trade_log, log_file, final_coin_balance,
                         crypto_allocation>>
          /\ alloc_idx' = alloc_idx + 1
          /\ pc' = IF alloc_idx < Len(crypto_allocation)
                   THEN "buy" ELSE "exit_completed"]_vars

C18_Witness ==
    /\ pc = "asset_balance"
    /\ alloc_idx = 3
    /\ Len(trade_log) = 1
    /\ trade_log[1].symbol[1] = crypto_allocation[1][1]
    /\ final_coin_balance < crypto_allocation[2][2] * (DAILY_USD \div FracScale)
    /\ final_coin_balance >= 0

(***************************************************************************)
(* C19                                                                     *)
(***************************************************************************)
\* C19: a purchase that was attempted logs a trade row exactly when the
\* conversion's output is above zero, and then the tracked balance goes
\* down by the amount the conversion reports as spent; with an output of
\* zero the ledger and the tracked balance stay as they are.
C19_TradeRowIffOutput ==
    [][(pc = "buy" /\ pc' = "asset_balance") =>
          /\ order'.toAmount > 0 =>
               /\ Len(trade_log') = Len(trade_log) + 1
               /\ \A i \in DOMAIN trade_log : trade_log'[i] = trade_log[i]
               /\ trade_log'[Len(trade_log')] =
                    [symbol |-> <<crypto_allocation[alloc_idx][1], USD_TYPE>>,
                     quantity |-> order'.toAmount,
                     price |-> <<order'.fromAmount, order'.toAmount>>,
                     total_usd |-> order'.fromAmount]
               /\ final_coin_balance' = final_coin_balance - order'.fromAmount
          /\ order'.toAmount <= 0 =>
               UNCHANGED <<trade_log, log_file, final_coin_balance>>]_vars

C19_Witness ==
    /\ pc = "asset_balance"
    /\ order.toAmount > 0
    /\ order.fromAmount < crypto_allocation[alloc_idx][2]
                            * (DAILY_USD \div FracScale)
    /\ trade_log # <<>>
    /\ trade_log[Len(trade_log)].total_usd = order.fromAmount

(***************************************************************************)
(* C20                                                                     *)
(***************************************************************************)
\* C20: every fraction of a plan the run works with is above 0 and at most
\* 1, and a string with a fraction outside that range gives no plan: the
\* run ends before the first balance read.
C20_PlanFractionsInRange ==
    /\ \A k \in DOMAIN crypto_allocation :
         /\ crypto_allocation[k][2] > 0
         /\ crypto_allocation[k][2] <= FracScale
    /\ ((\E i \in DOMAIN allocString :
            /\ allocString[i].val # NotANumber
            /\ (allocString[i].val <= 0 \/ allocString[i].val > FracScale))
          /\ pc # "start") => pc = "exit_no_plan"

(***************************************************************************)
(* C21                                                                     *)
(***************************************************************************)
\* C21: a statement that calls convert_coins makes no exchange call, or
\* the quote request alone when that request fails, or the quote request
\* followed by one confirm; a quote that was received is confirmed, no
\* other call comes between or after; when either call fails the result
\* is the zero-amount tuple, with a log line and a message, and the run
\* goes on.
C21_QuoteThenConfirmOnce ==
    [][(pc = "secondary_convert" \/ (pc = "buy" /\ pc' = "asset_balance")) =>
          LET coin == IF pc = "buy" THEN USD_TYPE
                      ELSE STABLECOIN_LIST[stable_idx]
              quote == <<"request_a_quote", coin>>
              confirm == <<"confirm_a_quote", coin>>
          IN  /\ pc' # "raised"
              /\ calls' \in {<<>>, <<quote>>, <<quote, confirm>>}
              /\ calls' = <<quote>> => caught' = <<"convert">>
              /\ calls' = <<>> => caught' = <<>>
              /\ caught' # <<>> =>
                   /\ caught' = <<"convert">>
                   /\ order'.fromAmount = 0 /\ order'.toAmount = 0
                   /\ "convert_error" \in Range(notes')
                   /\ "convert_error" \in Range(logs')
              /\ (order'.fromAmount # 0 \/ order'.toAmount # 0) =>
                   (calls' = <<quote, confirm>> /\ caught' = <<>>)]_vars

C21_Witness ==
    /\ pc = "asset_balance"
    /\ calls = <<<<"request_a_quote", USD_TYPE>>,
                 <<"confirm_a_quote", USD_TYPE>>>>
    /\ caught = <<"convert">>
    /\ order = Sentinel(USD_TYPE, crypto_allocation[alloc_idx][1])

(***************************************************************************)
(* C22                                                                     *)
(***************************************************************************)
\* the buy amounts of the plan's entries from position k on, added up
RECURSIVE Remaining(_)
Remaining(k) ==
    IF k > Len(crypto_allocation) THEN 0
    ELSE crypto_allocation[k][2] * (DAILY_USD \div FracScale) + Remaining(k + 1)

\* C22: the purchase loop starts with a tracked balance of at least the
\* sum of all buy amounts, and as long as every conversion that is logged
\* spent at most the amount requested, the tracked balance is, at each
\* entry of the plan, at least the sum of the buy amounts of the entries
\* still to come, so that no entry is skipped.
C22_BalanceCoversRemainingPlan ==
    [][/\ (pc = "final_read" /\ pc' = "buy") =>
             final_coin_balance' >= Remaining(1)
       /\ (/\ pc = "buy"
           /\ final_coin_balance >= Remaining(alloc_idx)
           /\ order'.toAmount > 0 =>
                order'.fromAmount <= crypto_allocation[alloc_idx][2]
                                       * (DAILY_USD \div FracScale)) =>
             /\ pc' = "asset_balance"
             /\ final_coin_balance' >= Remaining(alloc_idx + 1)]_vars

\* C23: in a run of daily_dca whose balance read is below
\* MIN_REQUIRED_BALANCE, the step after the read submits one redemption,
\* and no step of the run places a buy order or changes the trade log,
\* whether the redemption succeeds, is refused or raises; a run that has
\* placed a buy order read a balance of at least MIN_REQUIRED_BALANCE.
C23_LowBalanceRedeemsAndNeverBuys ==
    /\ [](buy_orders # <<>> => usdc_balance >= MIN_REQUIRED_BALANCE)
    /\ [][(dca_pc # "start" /\ usdc_balance < MIN_REQUIRED_BALANCE) =>
            /\ buy_orders' = <<>>
            /\ binance_log' = binance_log
            /\ binance_log_file' = binance_log_file
            /\ Len(redemptions') = 1
            /\ dca_pc' \in {"wait", "skipped", "raised"}]_vars

\* a low balance, the redemption submitted with success, the run over
C23_Witness ==
    /\ dca_pc = "skipped"
    /\ usdc_balance < MIN_REQUIRED_BALANCE
    /\ usdc_balance > 0
    /\ Len(redemptions) = 1
    /\ buy_orders = <<>>
    /\ binance_log # <<>>

====
